---------------------------- MODULE Spec2Model ----------------------------
(***************************************************************************)
(* Edge-aware graph diffusion of an RGB raster:                            *)
(*   - the hybrid MPI+OpenMP program (src/hybrid/graph_denoise_rgb.c):     *)
(*     main, graph_diffusion_rgb_parallel, the collectives it calls;       *)
(*   - the single-process program (src/serial/graph_denoise_rgb.c).        *)
(* Images are byte arrays indexed from 0 as in the C code: a function      *)
(* 0..n-1 -> 0..255, pixel (y,x), channel c at (y*width + x)*3 + c.        *)
(*                                                                         *)
(* Floating point.  The stencil computes in IEEE single precision.  The    *)
(* model computes the same expressions in exact rational arithmetic over   *)
(* integers, with expf(-(d*d)/800) taken from a table scaled by 10^6 (a    *)
(* float never underflows to zero here: expf(-255*255/800) is about 5e-36, *)
(* so the table never holds 0).  Every statement checked below is about    *)
(* which cells are read and written and about the decision rule, not about *)
(* the last bit of a float.                                                *)
(***************************************************************************)
EXTENDS Integers, Sequences, FiniteSets, TLC

(* ---- bounds of the model ---- *)
MaxSize   == 2     \* worker processes: size \in 1..MaxSize
MaxHeight == 4     \* image height \in 1..MaxHeight
MaxWidth  == 3     \* image width
MaxIter   == 2     \* argv[4] \in {0, MaxIter-1, MaxIter}

(* ---- program constants ---- *)
Channels  == 3     \* RGB, interleaved
ArgCount  == 5     \* argc expected by main
Threshold == 20    \* float threshold = 20.0f
MaxByte   == 255   \* unsigned char

Scale == 1000 * 1000

(* iterations = atoi(argv[4]): rejected, and the two largest counts within the bound *)
IterationCounts == {0} \cup ((MaxIter - 1)..MaxIter)

(* alpha = atof(argv[3]) as a fraction <<numerator, denominator>>;         *)
(* the range [0,1] is expected but not enforced                            *)
Alphas == { <<0, 1>>, <<1, 2>>, <<1, 1>> }

(* pixel values of the input files the model reads *)
Palette == <<100, 120, 150>>

Abs(a)    == IF a < 0 THEN -a ELSE a

(***************************************************************************)
(* The stencil (hybrid lines 129-148, serial lines 73-95).                 *)
(***************************************************************************)
\* Scale * expf(-(d*d) / (2*sigma*sigma)) for d = 0..104, sigma = 20
ExpTable ==
  << 1000000, 998751, 995012, 988813, 980199, 969233, 955997,
     940588, 923116, 903707, 882497, 859633, 835270, 809572,
     782705, 754840, 726149, 696805, 666977, 636832, 606531,
     576229, 546074, 516206, 486752, 457833, 429557, 402021,
     375311, 349501, 324652, 300818, 278037, 256340, 235746,
     216265, 197899, 180640, 164474, 149382, 135335, 122303,
     110251, 99137, 88922, 79560, 71005, 63213, 56135,
     49725, 43937, 38726, 34047, 29860, 26121, 22794,
     19841, 17227, 14921, 12891, 11109, 9550, 8189,
     7004, 5976, 5086, 4318, 3656, 3089, 2603,
     2187, 1834, 1534, 1280, 1065, 884, 732,
     604, 498, 409, 335, 274, 224, 182,
     148, 120, 97, 78, 63, 50, 40,
     32, 25, 20, 16, 13, 10, 8,
     6, 5, 4, 3, 2, 2, 1 >>

\* float weight = expf(-(diff * diff) / (2 * sigma * sigma)), times Scale
Weight(diff) ==
  LET d == Abs(diff) IN IF d < Len(ExpTable) THEN ExpTable[d + 1] ELSE 1

\* idx = (y * width + x) * 3 + c
Idx(width, y, x, c) == (y * width + x) * Channels + c

\* int neighbors[4] = { up, down, left, right }
Neighbors(buf, width, y, x, c) ==
  << buf[Idx(width, y - 1, x, c)], buf[Idx(width, y + 1, x, c)],
     buf[Idx(width, y, x - 1, c)], buf[Idx(width, y, x + 1, c)] >>

\* weight_sum, times Scale
WeightSum(nb, center) ==
  Weight(nb[1] - center) + Weight(nb[2] - center)
    + Weight(nb[3] - center) + Weight(nb[4] - center)

\* weighted_value - center * weight_sum, times Scale:
\* smooth_value - center = WeightedDiff / WeightSum
WeightedDiff(nb, center) ==
  Weight(nb[1] - center) * (nb[1] - center) + Weight(nb[2] - center) * (nb[2] - center)
    + Weight(nb[3] - center) * (nb[3] - center) + Weight(nb[4] - center) * (nb[4] - center)

\* fault: the fabsf is missing (smooth_value - center > threshold)
IsEdgeSigned(wd, ws) == wd > Threshold * ws

\* diff_val > threshold, with diff_val = fabsf(smooth_value - center) = |wd| / ws
IsEdge(wd, ws) == Abs(wd) > Threshold * ws

\* fault: the fmaxf(result, 0) is missing
ClampByteNoFloor(whole) == IF whole > MaxByte THEN MaxByte ELSE whole

\* (unsigned char)(fminf(fmaxf(result, 0), 255)) for result = whole + a fraction in [0,1)
ClampByte(whole) == IF whole < 0 THEN 0 ELSE IF whole > MaxByte THEN MaxByte ELSE whole

\* fault: the blend adds alpha * smooth_value instead of alpha * (smooth_value - center)
ResultNoCenter(nb, center, alpha) ==
  LET ws == WeightSum(nb, center)
      wd == WeightedDiff(nb, center)
  IN  IF IsEdge(wd, ws)
        THEN ClampByte(center + (wd \div ws))
        ELSE ClampByte(center + ((alpha[1] * (wd + center * ws)) \div (alpha[2] * ws)))

\* result = (diff_val > threshold) ? smooth_value : center + alpha * (smooth_value - center),
\* clamped and truncated; a \div b is the floor of a/b
Result(nb, center, alpha) ==
  LET ws == WeightSum(nb, center)
      wd == WeightedDiff(nb, center)
  IN  IF IsEdge(wd, ws)
        THEN ClampByte(center + (wd \div ws))
        ELSE ClampByte(center + ((alpha[1] * wd) \div (alpha[2] * ws)))

\* the value written to next[idx] (output->data[idx]) for pixel (y,x), channel c
Stencil(buf, width, y, x, c, alpha) ==
  Result(Neighbors(buf, width, y, x, c), buf[Idx(width, y, x, c)], alpha)

\* the body of the (y,x) loops: the three channels of one pixel written into dst
UpdatePixel(dst, src, width, y, x, alpha) ==
  [k \in DOMAIN dst |->
     IF k \div Channels = y * width + x
       THEN Stencil(src, width, y, x, k % Channels, alpha)
       ELSE dst[k]]

(***************************************************************************)
(* The partition planner and the exchange table                            *)
(* (graph_diffusion_rgb_parallel, lines 83-116).                           *)
(***************************************************************************)
\* int rows_per_proc = height / size;  int extra = height % size;
RowsPerProc(height, size) == height \div size
Extra(height, size) == height % size

\* fault: the rank equal to the remainder also takes an extra row
LocalRowsInclusive(rank, height, size) ==
  IF rank <= Extra(height, size) THEN RowsPerProc(height, size) + 1
                                 ELSE RowsPerProc(height, size)

\* local_rows (lines 87-96)
LocalRows(rank, height, size) ==
  IF rank < Extra(height, size) THEN RowsPerProc(height, size) + 1
                                ELSE RowsPerProc(height, size)

\* fault: the remainder rows are forgotten in the else branch (local_start = rank * rows_per_proc)
LocalStartNoExtra(rank, height, size) ==
  IF rank < Extra(height, size)
    THEN rank * LocalRows(rank, height, size)
    ELSE rank * RowsPerProc(height, size)

\* local_start (lines 87-96)
LocalStart(rank, height, size) ==
  IF rank < Extra(height, size)
    THEN rank * LocalRows(rank, height, size)
    ELSE rank * RowsPerProc(height, size) + Extra(height, size)

\* int local_end = local_start + local_rows;
LocalEnd(rank, height, size) == LocalStart(rank, height, size) + LocalRows(rank, height, size)

\* fault: a rank that does not own row 0 leaves out its first row
EffStartSkipsRow(start) == IF start < 1 THEN 1 ELSE start + 1

\* (start < 1) ? 1 : start            (lines 100 and 112)
EffStart(start) == IF start < 1 THEN 1 ELSE start

\* fault: the end of the region is not clamped to the last interior row
EffEndUnclamped(end, height) == end

\* (end > height - 1) ? height - 1 : end      (lines 101 and 113)
EffEnd(end, height) == IF end > height - 1 THEN height - 1 ELSE end

\* the loop of lines 107-116, entry i
ProcRows(i, height, size) ==
  IF i < Extra(height, size) THEN RowsPerProc(height, size) + 1
                             ELSE RowsPerProc(height, size)

\* fault: the table forgets the extra rows of the ranks before i
ProcStartNoExtra(i, height, size) == i * RowsPerProc(height, size)

ProcStart(i, height, size) ==
  IF i < Extra(height, size)
    THEN i * (RowsPerProc(height, size) + 1)
    ELSE i * RowsPerProc(height, size) + Extra(height, size)

ProcEnd(i, height, size) == ProcStart(i, height, size) + ProcRows(i, height, size)

\* fault: the count is taken from the unclamped rows (proc_rows * width * 3)
RecvCountUnclamped(i, width, height, size) == ProcRows(i, height, size) * width * Channels

\* recvcounts[i] = (eff_end - eff_start) * width * 3;
RecvCount(i, width, height, size) ==
  (EffEnd(ProcEnd(i, height, size), height) - EffStart(ProcStart(i, height, size)))
    * width * Channels

\* displs[i] = eff_start * width * 3;
Displ(i, width, height, size) == EffStart(ProcStart(i, height, size)) * width * Channels

\* everything graph_diffusion_rgb_parallel computes before its loop (lines 83-116)
Plan(rank, width, height, size) ==
  LET ls == LocalStart(rank, height, size)
      le == LocalEnd(rank, height, size)
      es == EffStart(ls)
      ee == EffEnd(le, height)
  IN  [ local_start |-> ls, local_end |-> le,
        local_eff_start |-> es, local_eff_end |-> ee,
        local_count |-> (ee - es) * width * Channels,
        recvcounts |-> [i \in 0..(size - 1) |-> RecvCount(i, width, height, size)],
        displs |-> [i \in 0..(size - 1) |-> Displ(i, width, height, size)] ]

\* fault: the x loop starts at the border column (x = 0)
ColumnsFromZero(width) == 0..(width - 2)

\* the x range of the stencil loop: for (int x = 1; x < width - 1; x++)
Columns(width) == 1..(width - 2)

\* fault: the y loop starts at row 1 on every rank
RegionFromRowOne(eff_start, eff_end, width) == (1..(eff_end - 1)) \X Columns(width)

\* the (y,x) iteration space of the collapsed OpenMP loop (lines 122-125)
Region(eff_start, eff_end, width) == (eff_start..(eff_end - 1)) \X Columns(width)

(***************************************************************************)
(* Buffers.                                                                *)
(***************************************************************************)
ImageSize(width, height) == width * height * Channels

\* a buffer nothing has been stored in and nothing reads
NoBuffer == << >>

\* memcpy(dst, src, image_size) of a whole image
Memcpy(src) == src

\* the bytes [offset, offset + count) of buf, as a message indexed from 0
Slice(buf, offset, count) == [k \in 0..(count - 1) |-> buf[offset + k]]

\* MPI_Allgatherv into recvbuf: rank i's message lands at displs[i], recvcounts[i] bytes
Allgatherv(recvbuf, msgs, counts, offsets) ==
  [k \in DOMAIN recvbuf |->
     IF \E i \in DOMAIN counts : offsets[i] <= k /\ k < offsets[i] + counts[i]
       THEN LET i == CHOOSE j \in DOMAIN counts : offsets[j] <= k /\ k < offsets[j] + counts[j]
            IN  msgs[i][k - offsets[i]]
       ELSE recvbuf[k]]

(***************************************************************************)
(* Input files: width x height images over Palette.                        *)
(***************************************************************************)
\* pixel (y,x), channel c of the image with stripe parameters a, b
PatternImage(width, height, a, b) ==
  [k \in 0..(ImageSize(width, height) - 1) |->
     LET c == k % Channels
         x == (k \div Channels) % width
         y == (k \div Channels) \div width
     IN  Palette[((a * y + b * x + c) % Len(Palette)) + 1]]

Patterns == { <<0, 0>>, <<1, 0>>, <<1, 2>> }

\* what read_ppm finds: no readable file, or a decoded image
Files ==
  { [ok |-> FALSE, width |-> 0, height |-> 0, data |-> NoBuffer] }
  \cup
  { [ok |-> TRUE, width |-> w, height |-> h, data |-> PatternImage(w, h, p[1], p[2])] :
      w \in {MaxWidth}, h \in 1..MaxHeight, p \in Patterns }

(***************************************************************************)
(* State.                                                                  *)
(***************************************************************************)
VARIABLES
  argc, iterations, alpha,  \* the command line: argc, atoi(argv[4]), atof(argv[3])
  size,                     \* MPI_Comm_size
  file,                     \* what read_ppm(argv[1]) finds
  pc, ret,                  \* per rank: position in main, return code (-1 while running)
  width, height,            \* per rank: main's width and height
  input, output,            \* per rank: input->data, output->data
  curr, next,               \* per rank: the snapshot and the scratch buffer
  iter,                     \* per rank: the loop counter of line 118
  todo,                     \* per rank: (y,x) iterations of the OpenMP loop not yet run
  plan,                     \* per rank: local_start .. displs
  ncoll,                    \* per rank: collective calls entered so far
  bcast,                    \* values rank 0 has broadcast, in order
  sent,                     \* per rank: the send buffers it passed to MPI_Allgatherv, in order
  written,                  \* the output file of the hybrid program
  s_pc, s_ret,              \* the single-process program: position, return code
  s_temp, s_out,            \* its temp and output->data buffers
  s_iter,                   \* its loop counter
  s_written,                \* its output file
  m_pc, m_ret,              \* the MPI median filter, per rank: position in main, return code
  m_width, m_height,        \* per rank: main's width and height
  m_input,                  \* per rank: input->data
  m_plan,                   \* per rank: rows_per_process, start_row, end_row
  m_temp,                   \* per rank: the temp buffer of median_filter_rgb_parallel
  m_row,                    \* per rank: the y of the row loop
  m_reads,                  \* per rank: the row indices y+dy read from input->data so far
  m_ncoll,                  \* per rank: collective calls entered so far
  m_bcast,                  \* values rank 0 has broadcast, in order
  m_sent,                   \* per rank: the send buffers it passed to MPI_Gather, in order
  m_output,                 \* output->data at rank 0
  m_written,                \* the output file of the median filter
  k_center, k_nb,           \* one stencil application on its own: center and neighbors[4]
  k_out                     \* the byte it writes (-1 before it has run)

config == << argc, iterations, alpha, size, file >>
mpi    == << pc, ret, width, height, input, output, curr, next, iter, todo, plan,
             ncoll, bcast, sent, written >>
serial == << s_pc, s_ret, s_temp, s_out, s_iter, s_written >>
median == << m_pc, m_ret, m_width, m_height, m_input, m_plan, m_temp, m_row, m_reads,
             m_ncoll, m_bcast, m_sent, m_output, m_written >>
kernel == << k_center, k_nb, k_out >>
vars   == << config, mpi, serial, median, kernel >>

Ranks == 0..(size - 1)

\* the plan of a rank that has not entered median_filter_rgb_parallel
NoRows == [ rows_per_process |-> 0, start_row |-> 0, end_row |-> 0 ]

NoPlan == [ local_start |-> 0, local_end |-> 0, local_eff_start |-> 0,
            local_eff_end |-> 0, local_count |-> 0,
            recvcounts |-> << >>, displs |-> << >> ]

\* the MPI median filter before MPI_Init returns
MedianNotStarted ==
  /\ m_pc = [r \in Ranks |-> "main"]
  /\ m_ret = [r \in Ranks |-> -1]
  /\ m_width = [r \in Ranks |-> 0]
  /\ m_height = [r \in Ranks |-> 0]
  /\ m_input = [r \in Ranks |-> NoBuffer]
  /\ m_plan = [r \in Ranks |-> NoRows]
  /\ m_temp = [r \in Ranks |-> NoBuffer]
  /\ m_row = [r \in Ranks |-> 0]
  /\ m_reads = [r \in Ranks |-> {}]
  /\ m_ncoll = [r \in Ranks |-> 0]
  /\ m_bcast = << >>
  /\ m_sent = [r \in Ranks |-> << >>]
  /\ m_output = NoBuffer
  /\ m_written = NoBuffer

\* no stencil application on its own
KernelNotStarted ==
  /\ k_center = 0
  /\ k_nb = << 0, 0, 0, 0 >>
  /\ k_out = -1

Init ==
  /\ argc \in { ArgCount - 1, ArgCount }
  /\ iterations \in IterationCounts
  /\ alpha \in Alphas
  /\ size \in 1..MaxSize
  /\ file \in Files
  /\ pc = [r \in Ranks |-> "main"]
  /\ ret = [r \in Ranks |-> -1]
  /\ width = [r \in Ranks |-> 0]
  /\ height = [r \in Ranks |-> 0]
  /\ input = [r \in Ranks |-> NoBuffer]
  /\ output = [r \in Ranks |-> NoBuffer]
  /\ curr = [r \in Ranks |-> NoBuffer]
  /\ next = [r \in Ranks |-> NoBuffer]
  /\ iter = [r \in Ranks |-> 0]
  /\ todo = [r \in Ranks |-> {}]
  /\ plan = [r \in Ranks |-> NoPlan]
  /\ ncoll = [r \in Ranks |-> 0]
  /\ bcast = << >>
  /\ sent = [r \in Ranks |-> << >>]
  /\ written = NoBuffer
  /\ s_pc = "main"
  /\ s_ret = -1
  /\ s_temp = NoBuffer
  /\ s_out = NoBuffer
  /\ s_iter = 0
  /\ s_written = NoBuffer
  /\ MedianNotStarted
  /\ KernelNotStarted

(***************************************************************************)
(* The hybrid program: main (lines 165-273).                               *)
(***************************************************************************)
\* MPI_Finalize(); return code;
Return(r, code) ==
  /\ pc' = [pc EXCEPT ![r] = "exit"]
  /\ ret' = [ret EXCEPT ![r] = code]

\* fault: only rank 0 validates the command line
CheckArgsRootOnly(r) ==
  /\ pc[r] = "main"
  /\ IF r = 0 /\ (argc # ArgCount \/ iterations <= 0)
       THEN Return(r, 1)
       ELSE /\ pc' = [pc EXCEPT ![r] = "flag"]
            /\ ret' = ret
  /\ UNCHANGED << config, serial, median, kernel, width, height, input, output, curr, next, iter,
                  todo, plan, ncoll, bcast, sent, written >>

\* lines 179-195: argument count and iteration count
CheckArgs(r) ==
  /\ pc[r] = "main"
  /\ IF argc # ArgCount \/ iterations <= 0
       THEN Return(r, 1)
       ELSE /\ pc' = [pc EXCEPT ![r] = "flag"]
            /\ ret' = ret
  /\ UNCHANGED << config, serial, median, kernel, width, height, input, output, curr, next, iter,
                  todo, plan, ncoll, bcast, sent, written >>

\* MPI_Bcast at the root: the value is on its way once the root has called
RootBcast(value) == bcast' = Append(bcast, value)

\* MPI_Bcast elsewhere: the k-th collective of a rank completes with the k-th value
\* the root broadcast, and not before the root has broadcast it
BcastArrived(r) == Len(bcast) > ncoll[r]
BcastValue(r) == bcast[ncoll[r] + 1]

\* lines 198-212: rank 0 reads the file and broadcasts error_flag
RootLoad ==
  /\ pc[0] = "flag"
  /\ IF ~file.ok
       THEN /\ RootBcast(1)
            /\ Return(0, 1)
            /\ input' = input
       ELSE /\ RootBcast(0)
            /\ pc' = [pc EXCEPT ![0] = "width"]
            /\ ret' = ret
            /\ input' = [input EXCEPT ![0] = file.data]
  /\ ncoll' = [ncoll EXCEPT ![0] = @ + 1]
  /\ UNCHANGED << config, serial, median, kernel, width, height, output, curr, next, iter, todo,
                  plan, sent, written >>

\* fault: the other ranks receive error_flag and go on whatever it says
RecvFlagIgnored(r) ==
  /\ r # 0
  /\ pc[r] = "flag"
  /\ BcastArrived(r)
  /\ pc' = [pc EXCEPT ![r] = "width"]
  /\ ret' = ret
  /\ ncoll' = [ncoll EXCEPT ![r] = @ + 1]
  /\ UNCHANGED << config, serial, median, kernel, width, height, input, output, curr, next, iter,
                  todo, plan, bcast, sent, written >>

\* lines 213-224: the other ranks wait for error_flag
RecvFlag(r) ==
  /\ r # 0
  /\ pc[r] = "flag"
  /\ BcastArrived(r)
  /\ IF BcastValue(r) # 0
       THEN Return(r, 1)
       ELSE /\ pc' = [pc EXCEPT ![r] = "width"]
            /\ ret' = ret
  /\ ncoll' = [ncoll EXCEPT ![r] = @ + 1]
  /\ UNCHANGED << config, serial, median, kernel, width, height, input, output, curr, next, iter,
                  todo, plan, bcast, sent, written >>

\* lines 226-232: MPI_Bcast(&width, ...)
BcastWidth(r) ==
  /\ pc[r] = "width"
  /\ IF r = 0
       THEN /\ RootBcast(file.width)
            /\ width' = [width EXCEPT ![r] = file.width]
       ELSE /\ BcastArrived(r)
            /\ width' = [width EXCEPT ![r] = BcastValue(r)]
            /\ bcast' = bcast
  /\ pc' = [pc EXCEPT ![r] = "height"]
  /\ ncoll' = [ncoll EXCEPT ![r] = @ + 1]
  /\ UNCHANGED << config, serial, median, kernel, ret, height, input, output, curr, next, iter,
                  todo, plan, sent, written >>

\* lines 227-233: MPI_Bcast(&height, ...)
BcastHeight(r) ==
  /\ pc[r] = "height"
  /\ IF r = 0
       THEN /\ RootBcast(file.height)
            /\ height' = [height EXCEPT ![r] = file.height]
       ELSE /\ BcastArrived(r)
            /\ height' = [height EXCEPT ![r] = BcastValue(r)]
            /\ bcast' = bcast
  /\ pc' = [pc EXCEPT ![r] = "data"]
  /\ ncoll' = [ncoll EXCEPT ![r] = @ + 1]
  /\ UNCHANGED << config, serial, median, kernel, ret, width, input, output, curr, next, iter,
                  todo, plan, sent, written >>

\* lines 235-248: allocate output and input, MPI_Bcast(input->data, ...)
BcastData(r) ==
  /\ pc[r] = "data"
  /\ IF r = 0
       THEN /\ RootBcast(input[0])
            /\ input' = input
       ELSE /\ BcastArrived(r)
            /\ input' = [input EXCEPT ![r] = BcastValue(r)]
            /\ bcast' = bcast
  /\ pc' = [pc EXCEPT ![r] = "engine"]
  /\ ncoll' = [ncoll EXCEPT ![r] = @ + 1]
  /\ UNCHANGED << config, serial, median, kernel, ret, width, height, output, curr, next, iter,
                  todo, plan, sent, written >>

(***************************************************************************)
(* The hybrid program: graph_diffusion_rgb_parallel (lines 75-163).        *)
(***************************************************************************)
\* lines 77-116: allocate, memcpy(curr, input->data), plan the partition, build the table
EngineInit(r) ==
  /\ pc[r] = "engine"
  /\ curr' = [curr EXCEPT ![r] = Memcpy(input[r])]
  /\ plan' = [plan EXCEPT ![r] = Plan(r, width[r], height[r], size)]
  /\ iter' = [iter EXCEPT ![r] = 0]
  /\ pc' = [pc EXCEPT ![r] = "loop"]
  /\ UNCHANGED << config, serial, median, kernel, ret, width, height, input, output, next, todo,
                  ncoll, bcast, sent, written >>

\* fault: the loop runs once too often (iter <= iterations)
LoopCondInclusive(i, n) == i <= n

\* the loop condition of line 118: iter < iterations
LoopCond(i, n) == i < n

\* lines 118-125: iter < iterations; memcpy(next, curr); the parallel loop starts
RoundStart(r) ==
  /\ pc[r] = "loop"
  /\ LoopCond(iter[r], iterations)
  /\ next' = [next EXCEPT ![r] = Memcpy(curr[r])]
  /\ todo' = [todo EXCEPT ![r] =
                Region(plan[r].local_eff_start, plan[r].local_eff_end, width[r])]
  /\ pc' = [pc EXCEPT ![r] = "compute"]
  /\ UNCHANGED << config, serial, median, kernel, ret, width, height, input, output, curr, iter,
                  plan, ncoll, bcast, sent, written >>

\* fault: the stencil reads the buffer it is writing (an in-place update)
StencilSourceInPlace(cur, nxt) == nxt

\* the buffer the stencil reads: center = curr[idx], neighbors from curr (lines 130-135)
StencilSource(cur, nxt) == cur

\* lines 126-150: some thread runs one (y,x) iteration of the collapsed loop
PixelUpdate(r) ==
  /\ pc[r] = "compute"
  /\ \E p \in todo[r] :
       /\ next' = [next EXCEPT ![r] =
                     UpdatePixel(next[r], StencilSource(curr[r], next[r]),
                                 width[r], p[1], p[2], alpha)]
       /\ todo' = [todo EXCEPT ![r] = @ \ {p}]
  /\ UNCHANGED << config, serial, median, kernel, pc, ret, width, height, input, output, curr, iter,
                  plan, ncoll, bcast, sent, written >>

\* a count MPI rejects (MPI_ERR_COUNT): the send count or a receive count is negative
BadCounts(r) ==
  \/ plan[r].local_count < 0
  \/ \E i \in Ranks : plan[r].recvcounts[i] < 0

\* fault: a rank with nothing to send skips the collective and goes on to the next round
AllgathervSkipEmpty(r) ==
  /\ pc[r] = "compute"
  /\ todo[r] = {}
  /\ ~BadCounts(r)
  /\ IF plan[r].local_count = 0
       THEN /\ iter' = [iter EXCEPT ![r] = @ + 1]
            /\ pc' = [pc EXCEPT ![r] = "loop"]
            /\ UNCHANGED << sent, ncoll >>
       ELSE /\ sent' = [sent EXCEPT ![r] =
                          Append(@, Slice(next[r],
                                          plan[r].local_eff_start * width[r] * Channels,
                                          plan[r].local_count))]
            /\ ncoll' = [ncoll EXCEPT ![r] = @ + 1]
            /\ pc' = [pc EXCEPT ![r] = "gather"]
            /\ iter' = iter
  /\ UNCHANGED << config, serial, median, kernel, ret, width, height, input, output, curr, next,
                  todo, plan, bcast, written >>

\* lines 153-156: the loop is over (its implicit barrier), the rank enters
\* MPI_Allgatherv with next + local_eff_start*width*3, local_count
AllgathervEnter(r) ==
  /\ pc[r] = "compute"
  /\ todo[r] = {}
  /\ ~BadCounts(r)
  /\ sent' = [sent EXCEPT ![r] =
                Append(@, Slice(next[r], plan[r].local_eff_start * width[r] * Channels,
                                plan[r].local_count))]
  /\ ncoll' = [ncoll EXCEPT ![r] = @ + 1]
  /\ pc' = [pc EXCEPT ![r] = "gather"]
  /\ UNCHANGED << config, serial, median, kernel, ret, width, height, input, output, curr, next, iter,
                  todo, plan, bcast, written >>

\* lines 153-156 with a negative count: the call is erroneous; under the default
\* error handler (MPI_ERRORS_ARE_FATAL) the job is aborted, every rank with it
AllgathervAbort(r) ==
  /\ pc[r] = "compute"
  /\ todo[r] = {}
  /\ BadCounts(r)
  /\ pc' = [s \in Ranks |-> "abort"]
  /\ ret' = [s \in Ranks |-> 1]
  /\ ncoll' = [ncoll EXCEPT ![r] = @ + 1]
  /\ UNCHANGED << config, serial, median, kernel, width, height, input, output, curr, next, iter,
                  todo, plan, bcast, sent, written >>

\* MPI_Allgatherv returns at a rank only once every rank has sent its part of this round
AllgathervComplete(r) == \A s \in Ranks : Len(sent[s]) > iter[r]

\* fault: a gather to the root only (MPI_Gatherv): the other ranks keep their old snapshot
GatheredAtRoot(r) ==
  IF r = 0
    THEN Allgatherv(curr[r], [i \in Ranks |-> sent[i][iter[r] + 1]],
                    plan[r].recvcounts, plan[r].displs)
    ELSE curr[r]

\* the receive side of MPI_Allgatherv(..., curr, recvcounts, displs, ...) at rank r
Gathered(r) ==
  Allgatherv(curr[r], [i \in Ranks |-> sent[i][iter[r] + 1]],
             plan[r].recvcounts, plan[r].displs)

\* lines 153-157: MPI_Allgatherv returns, iter++
AllgathervExit(r) ==
  /\ pc[r] = "gather"
  /\ AllgathervComplete(r)
  /\ curr' = [curr EXCEPT ![r] = Gathered(r)]
  /\ iter' = [iter EXCEPT ![r] = @ + 1]
  /\ pc' = [pc EXCEPT ![r] = "loop"]
  /\ UNCHANGED << config, serial, median, kernel, ret, width, height, input, output, next, todo,
                  plan, ncoll, bcast, sent, written >>

\* lines 118 and 158-163: the loop ends, memcpy(output->data, curr), return to main
CopyOut(r) ==
  /\ pc[r] = "loop"
  /\ ~LoopCond(iter[r], iterations)
  /\ output' = [output EXCEPT ![r] = Memcpy(curr[r])]
  /\ pc' = [pc EXCEPT ![r] = "write"]
  /\ UNCHANGED << config, serial, median, kernel, ret, width, height, input, curr, next, iter, todo,
                  plan, ncoll, bcast, sent, written >>

\* lines 254-272: rank 0 writes the file; every rank finalizes and returns 0
Finish(r) ==
  /\ pc[r] = "write"
  /\ written' = IF r = 0 THEN output[0] ELSE written
  /\ Return(r, 0)
  /\ UNCHANGED << config, serial, median, kernel, width, height, input, output, curr, next, iter,
                  todo, plan, ncoll, bcast, sent >>

(***************************************************************************)
(* The single-process program (src/serial/graph_denoise_rgb.c), run on the *)
(* same command line and file once a one-worker hybrid run is over.        *)
(***************************************************************************)
MpiOver == size = 1 /\ pc[0] \in {"exit", "abort"}

\* malloc'ed and not initialized: the contents are whatever the allocator hands out
Uninitialized(n) == { [k \in 0..(n - 1) |-> g] : g \in {0, MaxByte} }

\* one pass of the y/x/c loops of graph_diffusion_rgb (lines 70-98): reads src, writes dst
SerialSweep(dst, src, w, h, a) ==
  [k \in DOMAIN dst |->
     LET c == k % Channels
         x == (k \div Channels) % w
         y == (k \div Channels) \div w
     IN  IF y \in 1..(h - 2) /\ x \in 1..(w - 2)
           THEN Stencil(src, w, y, x, c, a)
           ELSE dst[k]]

\* main lines 111-135 and graph_diffusion_rgb lines 63-67
SerialStart ==
  /\ MpiOver
  /\ s_pc = "main"
  /\ IF argc # ArgCount \/ iterations <= 0 \/ ~file.ok
       THEN /\ s_pc' = "exit"
            /\ s_ret' = 1
            /\ UNCHANGED << s_temp, s_out >>
       ELSE /\ s_pc' = "loop"
            /\ s_ret' = s_ret
            /\ s_temp' = Memcpy(file.data)
            /\ s_out' \in Uninitialized(ImageSize(file.width, file.height))
  /\ UNCHANGED << config, mpi, median, kernel, s_iter, s_written >>

\* lines 69-102: one iteration: the sweep writes output->data, then the pointers swap
SerialRound ==
  /\ s_pc = "loop"
  /\ s_iter < iterations
  /\ s_temp' = SerialSweep(s_out, s_temp, file.width, file.height, alpha)
  /\ s_out' = s_temp
  /\ s_iter' = s_iter + 1
  /\ UNCHANGED << config, mpi, median, kernel, s_pc, s_ret, s_written >>

\* if (iterations % 2 == 1) memcpy(output->data, temp, ...);      (lines 104-106)
CopyBack(out, temp, n) == IF n % 2 = 1 THEN Memcpy(temp) ELSE out

\* lines 104-108 and main lines 136-149: copy back, write_ppm, return 0
SerialFinish ==
  /\ s_pc = "loop"
  /\ ~(s_iter < iterations)
  /\ s_out' = CopyBack(s_out, s_temp, iterations)
  /\ s_written' = s_out'
  /\ s_pc' = "exit"
  /\ s_ret' = 0
  /\ UNCHANGED << config, mpi, median, kernel, s_temp, s_iter >>

(***************************************************************************)
(* Specification.                                                          *)
(***************************************************************************)
Next ==
  \/ \E r \in Ranks : CheckArgs(r)
  \/ RootLoad
  \/ \E r \in Ranks : RecvFlag(r)
  \/ \E r \in Ranks : BcastWidth(r)
  \/ \E r \in Ranks : BcastHeight(r)
  \/ \E r \in Ranks : BcastData(r)
  \/ \E r \in Ranks : EngineInit(r)
  \/ \E r \in Ranks : RoundStart(r)
  \/ \E r \in Ranks : PixelUpdate(r)
  \/ \E r \in Ranks : AllgathervEnter(r)
  \/ \E r \in Ranks : AllgathervAbort(r)
  \/ \E r \in Ranks : AllgathervExit(r)
  \/ \E r \in Ranks : CopyOut(r)
  \/ \E r \in Ranks : Finish(r)
  \/ SerialStart
  \/ SerialRound
  \/ SerialFinish

Spec == Init /\ [][Next]_vars


(***************************************************************************)
(* The partition planner on its own: every rank is about to call           *)
(* graph_diffusion_rgb_parallel, for more ranks and rows than the full     *)
(* runs above explore; the only step is EngineInit.                        *)
(***************************************************************************)
PlanMaxSize   == 6
PlanMaxHeight == 6

PlanFiles ==
  { [ok |-> TRUE, width |-> MaxWidth, height |-> h,
     data |-> PatternImage(MaxWidth, h, 1, 0)] : h \in 1..PlanMaxHeight }

InitPlan ==
  /\ argc = ArgCount
  /\ iterations = 1
  /\ alpha = <<1, 2>>
  /\ size \in 1..PlanMaxSize
  /\ file \in PlanFiles
  /\ pc = [r \in Ranks |-> "engine"]
  /\ ret = [r \in Ranks |-> -1]
  /\ width = [r \in Ranks |-> file.width]
  /\ height = [r \in Ranks |-> file.height]
  /\ input = [r \in Ranks |-> file.data]
  /\ output = [r \in Ranks |-> NoBuffer]
  /\ curr = [r \in Ranks |-> NoBuffer]
  /\ next = [r \in Ranks |-> NoBuffer]
  /\ iter = [r \in Ranks |-> 0]
  /\ todo = [r \in Ranks |-> {}]
  /\ plan = [r \in Ranks |-> NoPlan]
  /\ ncoll = [r \in Ranks |-> 4]
  /\ bcast = << 0, file.width, file.height, file.data >>
  /\ sent = [r \in Ranks |-> << >>]
  /\ written = NoBuffer
  /\ s_pc = "main"
  /\ s_ret = -1
  /\ s_temp = NoBuffer
  /\ s_out = NoBuffer
  /\ s_iter = 0
  /\ s_written = NoBuffer
  /\ MedianNotStarted
  /\ KernelNotStarted

NextPlan == \E r \in Ranks : EngineInit(r)

PlanSpec == InitPlan /\ [][NextPlan]_vars

(***************************************************************************)
(* The MPI median filter (src/mpi/median_denoise_rgb.c).                   *)
(***************************************************************************)
MedianArgCount == 3
MedMaxSize   == 3     \* worker processes of the median filter: size \in 1..MedMaxSize
MedMaxHeight == 4     \* image height \in 1..MedMaxHeight

MedianFiles ==
  { [ok |-> FALSE, width |-> 0, height |-> 0, data |-> NoBuffer] }
  \cup
  { [ok |-> TRUE, width |-> MaxWidth, height |-> h,
     data |-> PatternImage(MaxWidth, h, 1, 2)] : h \in 1..MedMaxHeight }

\* int rows_per_process = height / size;
RowsPerProcess(h, n) == h \div n

\* int start_row = rank * rows_per_process;
StartRow(rank, h, n) == rank * RowsPerProcess(h, n)

\* int end_row = (rank == size - 1) ? height : start_row + rows_per_process;
EndRow(rank, h, n) ==
  IF rank = n - 1 THEN h ELSE StartRow(rank, h, n) + RowsPerProcess(h, n)

\* lines 78-80 as one record
MedianPlan(rank, h, n) ==
  [ rows_per_process |-> RowsPerProcess(h, n),
    start_row |-> StartRow(rank, h, n),
    end_row |-> EndRow(rank, h, n) ]

\* the send count of a rank: width * (end_row - start_row) * 3
SendCount(pl, w) == w * (pl.end_row - pl.start_row) * Channels

\* the receive count per rank at the root: width * rows_per_process * 3
GatherRecvCount(pl, w) == w * pl.rows_per_process * Channels

\* input->data[neighbor_idx]: the byte when the index is inside the buffer,
\* whatever lies in memory there (g) when it is not
ReadByte(buf, k, g) == IF k \in DOMAIN buf THEN buf[k] ELSE g

\* the 3x3 window of channel c around (y,x), in the order of the dy/dx loops
Window(buf, w, y, x, c, g) ==
  [n \in 1..9 |->
     LET dy == ((n - 1) \div 3) - 1
         dx == ((n - 1) % 3) - 1
     IN  ReadByte(buf, ((y + dy) * w + (x + dx)) * Channels + c, g)]

\* the exchange sort of lines 103-115, from position (i, j) on
RECURSIVE SortFrom(_, _, _)
SortFrom(win, i, j) ==
  IF i > 9 THEN win
  ELSE IF j > 9 THEN SortFrom(win, i + 1, i + 2)
  ELSE SortFrom(IF win[i] > win[j]
                  THEN [win EXCEPT ![i] = win[j], ![j] = win[i]]
                  ELSE win,
                i, j + 1)

\* window[4] after the sort
Median(win) == SortFrom(win, 1, 2)[5]

\* the rows y+dy the window loops of row y read: none when the x loop is empty
RowsRead(y, w) == IF Columns(w) = {} THEN {} ELSE { y - 1, y, y + 1 }

\* one pass of the x and c loops for row y: temp[((y - start_row) * width + x) * 3 + c]
MedianRow(temp, buf, w, y, start, g) ==
  [k \in DOMAIN temp |->
     LET c == k % Channels
         x == (k \div Channels) % w
     IN  IF (k \div Channels) \div w = y - start /\ x \in Columns(w)
           THEN Median(Window(buf, w, y, x, c, g))
           ELSE temp[k]]

\* MPI_Finalize(); return code;
MedReturn(r, code) ==
  /\ m_pc' = [m_pc EXCEPT ![r] = "exit"]
  /\ m_ret' = [m_ret EXCEPT ![r] = code]

\* the job is killed (a fatal MPI error or a signal): every rank still running ends
MedKilled ==
  /\ m_pc' = [s \in Ranks |-> IF m_pc[s] = "exit" THEN "exit" ELSE "abort"]
  /\ m_ret' = [s \in Ranks |-> IF m_pc[s] = "exit" THEN m_ret[s] ELSE 1]

MedRootBcast(value) == m_bcast' = Append(m_bcast, value)
MedBcastArrived(r) == Len(m_bcast) > m_ncoll[r]
MedBcastValue(r) == m_bcast[m_ncoll[r] + 1]

\* lines 139-145: argument count
MedCheckArgs(r) ==
  /\ m_pc[r] = "main"
  /\ IF argc # MedianArgCount
       THEN MedReturn(r, 1)
       ELSE /\ m_pc' = [m_pc EXCEPT ![r] = "flag"]
            /\ m_ret' = m_ret
  /\ UNCHANGED << config, mpi, serial, kernel, m_width, m_height, m_input, m_plan, m_temp,
                  m_row, m_reads, m_ncoll, m_bcast, m_sent, m_output, m_written >>

\* lines 148-162: rank 0 reads the file and broadcasts error_flag
MedRootLoad ==
  /\ m_pc[0] = "flag"
  /\ IF ~file.ok
       THEN /\ MedRootBcast(1)
            /\ MedReturn(0, 1)
            /\ m_input' = m_input
       ELSE /\ MedRootBcast(0)
            /\ m_pc' = [m_pc EXCEPT ![0] = "width"]
            /\ m_ret' = m_ret
            /\ m_input' = [m_input EXCEPT ![0] = file.data]
  /\ m_ncoll' = [m_ncoll EXCEPT ![0] = @ + 1]
  /\ UNCHANGED << config, mpi, serial, kernel, m_width, m_height, m_plan, m_temp, m_row,
                  m_reads, m_sent, m_output, m_written >>

\* lines 163-174: the other ranks wait for error_flag
MedRecvFlag(r) ==
  /\ r # 0
  /\ m_pc[r] = "flag"
  /\ MedBcastArrived(r)
  /\ IF MedBcastValue(r) # 0
       THEN MedReturn(r, 1)
       ELSE /\ m_pc' = [m_pc EXCEPT ![r] = "width"]
            /\ m_ret' = m_ret
  /\ m_ncoll' = [m_ncoll EXCEPT ![r] = @ + 1]
  /\ UNCHANGED << config, mpi, serial, kernel, m_width, m_height, m_input, m_plan, m_temp,
                  m_row, m_reads, m_bcast, m_sent, m_output, m_written >>

\* lines 176-182: MPI_Bcast(&width, ...)
MedBcastWidth(r) ==
  /\ m_pc[r] = "width"
  /\ IF r = 0
       THEN /\ MedRootBcast(file.width)
            /\ m_width' = [m_width EXCEPT ![r] = file.width]
       ELSE /\ MedBcastArrived(r)
            /\ m_width' = [m_width EXCEPT ![r] = MedBcastValue(r)]
            /\ m_bcast' = m_bcast
  /\ m_pc' = [m_pc EXCEPT ![r] = "height"]
  /\ m_ncoll' = [m_ncoll EXCEPT ![r] = @ + 1]
  /\ UNCHANGED << config, mpi, serial, kernel, m_ret, m_height, m_input, m_plan, m_temp,
                  m_row, m_reads, m_sent, m_output, m_written >>

\* line 183: MPI_Bcast(&height, ...)
MedBcastHeight(r) ==
  /\ m_pc[r] = "height"
  /\ IF r = 0
       THEN /\ MedRootBcast(file.height)
            /\ m_height' = [m_height EXCEPT ![r] = file.height]
       ELSE /\ MedBcastArrived(r)
            /\ m_height' = [m_height EXCEPT ![r] = MedBcastValue(r)]
            /\ m_bcast' = m_bcast
  /\ m_pc' = [m_pc EXCEPT ![r] = "data"]
  /\ m_ncoll' = [m_ncoll EXCEPT ![r] = @ + 1]
  /\ UNCHANGED << config, mpi, serial, kernel, m_ret, m_width, m_input, m_plan, m_temp,
                  m_row, m_reads, m_sent, m_output, m_written >>

\* lines 185-198: allocate output and input, MPI_Bcast(input->data, ...)
MedBcastData(r) ==
  /\ m_pc[r] = "data"
  /\ IF r = 0
       THEN /\ MedRootBcast(m_input[0])
            /\ m_input' = m_input
       ELSE /\ MedBcastArrived(r)
            /\ m_input' = [m_input EXCEPT ![r] = MedBcastValue(r)]
            /\ m_bcast' = m_bcast
  /\ m_pc' = [m_pc EXCEPT ![r] = "filter"]
  /\ m_ncoll' = [m_ncoll EXCEPT ![r] = @ + 1]
  /\ UNCHANGED << config, mpi, serial, kernel, m_ret, m_width, m_height, m_plan, m_temp,
                  m_row, m_reads, m_sent, m_output, m_written >>

\* lines 76-82: the row range of the rank and malloc(width * (end_row - start_row) * 3)
MedFilterInit(r) ==
  /\ m_pc[r] = "filter"
  /\ LET pl == MedianPlan(r, m_height[r], size)
     IN  /\ m_plan' = [m_plan EXCEPT ![r] = pl]
         /\ m_row' = [m_row EXCEPT ![r] = pl.start_row]
         /\ \E t \in Uninitialized(SendCount(pl, m_width[r])) :
              m_temp' = [m_temp EXCEPT ![r] = t]
  /\ m_pc' = [m_pc EXCEPT ![r] = "rows"]
  /\ UNCHANGED << config, mpi, serial, kernel, m_ret, m_width, m_height, m_input, m_reads,
                  m_ncoll, m_bcast, m_sent, m_output, m_written >>

\* a read of row y+dy outside [0, height-1] is a read outside input->data
ReadsOutside(y, w, h) == \E row \in RowsRead(y, w) : row \notin 0..(h - 1)

\* lines 84-121: one iteration of the y loop; a read outside the buffer yields
\* whatever the memory next to it holds
MedRowStep(r) ==
  /\ m_pc[r] = "rows"
  /\ m_row[r] < m_plan[r].end_row
  /\ \E g \in (IF ReadsOutside(m_row[r], m_width[r], m_height[r])
                 THEN {0, MaxByte} ELSE {0}) :
       m_temp' = [m_temp EXCEPT ![r] =
                    MedianRow(m_temp[r], m_input[r], m_width[r], m_row[r],
                              m_plan[r].start_row, g)]
  /\ m_reads' = [m_reads EXCEPT ![r] = @ \cup RowsRead(m_row[r], m_width[r])]
  /\ m_row' = [m_row EXCEPT ![r] = @ + 1]
  /\ UNCHANGED << config, mpi, serial, kernel, m_pc, m_ret, m_width, m_height, m_input,
                  m_plan, m_ncoll, m_bcast, m_sent, m_output, m_written >>

\* lines 96-97 with an index outside input->data: the read may also hit an
\* unmapped page, and the signal ends the job
MedRowFault(r) ==
  /\ m_pc[r] = "rows"
  /\ m_row[r] < m_plan[r].end_row
  /\ ReadsOutside(m_row[r], m_width[r], m_height[r])
  /\ m_reads' = [m_reads EXCEPT ![r] = @ \cup RowsRead(m_row[r], m_width[r])]
  /\ MedKilled
  /\ UNCHANGED << config, mpi, serial, kernel, m_width, m_height, m_input, m_plan, m_temp,
                  m_row, m_ncoll, m_bcast, m_sent, m_output, m_written >>

\* lines 123-124: the rank calls MPI_Gather with its temp buffer; a rank other
\* than the root returns once its buffer is handed over
MedGatherEnter(r) ==
  /\ m_pc[r] = "rows"
  /\ ~(m_row[r] < m_plan[r].end_row)
  /\ m_sent' = [m_sent EXCEPT ![r] = Append(@, m_temp[r])]
  /\ m_ncoll' = [m_ncoll EXCEPT ![r] = @ + 1]
  /\ m_pc' = [m_pc EXCEPT ![r] = IF r = 0 THEN "gather" ELSE "free"]
  /\ UNCHANGED << config, mpi, serial, kernel, m_ret, m_width, m_height, m_input, m_plan,
                  m_temp, m_row, m_reads, m_bcast, m_output, m_written >>

\* the number of bytes rank s handed to MPI_Gather
SentCount(s) == Cardinality(DOMAIN m_sent[s][1])

\* a message longer than the root's receive count: MPI_ERR_TRUNCATE
Truncated(count) == \E s \in Ranks : SentCount(s) > count

\* output->data after MPI_Gather: the message of rank s at offset s * recvcount
MedGathered(count, n) == [k \in 0..(n - 1) |-> m_sent[k \div count][1][k % count]]

\* lines 123-124 at the root: MPI_Gather returns when every rank's message has
\* arrived; a message that does not fit its slot is a fatal error
MedGatherRoot ==
  /\ m_pc[0] = "gather"
  /\ \A s \in Ranks : Len(m_sent[s]) = 1
  /\ LET count == GatherRecvCount(m_plan[0], m_width[0])
     IN  IF Truncated(count)
           THEN /\ MedKilled
                /\ m_output' = m_output
           ELSE /\ m_output' = MedGathered(count, ImageSize(m_width[0], m_height[0]))
                /\ m_pc' = [m_pc EXCEPT ![0] = "free"]
                /\ m_ret' = m_ret
  /\ UNCHANGED << config, mpi, serial, kernel, m_width, m_height, m_input, m_plan, m_temp,
                  m_row, m_reads, m_ncoll, m_bcast, m_sent, m_written >>

\* lines 126 and 203-223: free(temp); rank 0 writes the file; MPI_Finalize; return 0
MedFinish(r) ==
  /\ m_pc[r] = "free"
  /\ m_written' = IF r = 0 THEN m_output ELSE m_written
  /\ MedReturn(r, 0)
  /\ UNCHANGED << config, mpi, serial, kernel, m_width, m_height, m_input, m_plan, m_temp,
                  m_row, m_reads, m_ncoll, m_bcast, m_sent, m_output >>

\* the two graph-diffusion programs before they start
GraphNotStarted ==
  /\ pc = [r \in Ranks |-> "main"]
  /\ ret = [r \in Ranks |-> -1]
  /\ width = [r \in Ranks |-> 0]
  /\ height = [r \in Ranks |-> 0]
  /\ input = [r \in Ranks |-> NoBuffer]
  /\ output = [r \in Ranks |-> NoBuffer]
  /\ curr = [r \in Ranks |-> NoBuffer]
  /\ next = [r \in Ranks |-> NoBuffer]
  /\ iter = [r \in Ranks |-> 0]
  /\ todo = [r \in Ranks |-> {}]
  /\ plan = [r \in Ranks |-> NoPlan]
  /\ ncoll = [r \in Ranks |-> 0]
  /\ bcast = << >>
  /\ sent = [r \in Ranks |-> << >>]
  /\ written = NoBuffer
  /\ s_pc = "main"
  /\ s_ret = -1
  /\ s_temp = NoBuffer
  /\ s_out = NoBuffer
  /\ s_iter = 0
  /\ s_written = NoBuffer

\* the median filter is started on its own command line and file
InitMedian ==
  /\ argc \in { MedianArgCount - 1, MedianArgCount }
  /\ iterations = 0
  /\ alpha = <<0, 1>>
  /\ size \in 1..MedMaxSize
  /\ file \in MedianFiles
  /\ GraphNotStarted
  /\ MedianNotStarted
  /\ KernelNotStarted

NextMedian ==
  \/ \E r \in Ranks : MedCheckArgs(r)
  \/ MedRootLoad
  \/ \E r \in Ranks : MedRecvFlag(r)
  \/ \E r \in Ranks : MedBcastWidth(r)
  \/ \E r \in Ranks : MedBcastHeight(r)
  \/ \E r \in Ranks : MedBcastData(r)
  \/ \E r \in Ranks : MedFilterInit(r)
  \/ \E r \in Ranks : MedRowStep(r)
  \/ \E r \in Ranks : MedRowFault(r)
  \/ \E r \in Ranks : MedGatherEnter(r)
  \/ MedGatherRoot
  \/ \E r \in Ranks : MedFinish(r)

MedianSpec == InitMedian /\ [][NextMedian]_vars

(***************************************************************************)
(* The stencil's decision rule on its own (lines 129-148): one application *)
(* to a centre and four neighbours, for alphas inside and outside [0, 1].  *)
(***************************************************************************)
\* byte values: the extremes, and values 10 and 30 away from them and from each other
KernelBytes == { 0, 10, 30, 100, 245, 255 }

\* atof(argv[3]): main does not restrict alpha
KernelAlphas == { <<-2, 1>>, <<-1, 1>>, <<0, 1>>, <<1, 2>>, <<1, 1>>, <<2, 1>> }

InitKernel ==
  /\ argc = ArgCount
  /\ iterations = 1
  /\ alpha \in KernelAlphas
  /\ size = 1
  /\ file \in { f \in Files : ~f.ok }
  /\ GraphNotStarted
  /\ MedianNotStarted
  /\ k_center \in KernelBytes
  /\ k_nb \in [1..4 -> KernelBytes]
  /\ k_out = -1

\* lines 129-148 for one pixel and channel: next[idx] = (unsigned char)(...)
ApplyKernel ==
  /\ k_out = -1
  /\ k_out' = Result(k_nb, k_center, alpha)
  /\ UNCHANGED << config, mpi, serial, median, k_center, k_nb >>

NextKernel == ApplyKernel

KernelSpec == InitKernel /\ [][NextKernel]_vars

(***************************************************************************)
(* Properties.                                                             *)
(***************************************************************************)
\* the ranks that have planned their partition
Planned == { r \in Ranks : plan[r] # NoPlan }

\* the ranks whose snapshot buffer exists
InEngine == { r \in Ranks : curr[r] # NoBuffer }

\* rows [local_start, local_end) of rank r
RowsOf(r) == plan[r].local_start..(plan[r].local_end - 1)

\* C1: for height >= 1 and 1 <= worker_count <= height the ranges
\* [local_start, local_end) of the ranks tile [0, height): rank 0 starts at row 0,
\* consecutive ranks are adjacent, the last rank ends at height, no row is in two
\* ranges, and once every rank has planned no row is left out; the ranges
\* [proc_start, proc_end) of the table loop a rank runs are adjacent in the same way.
C1_PartitionTiles ==
  size <= file.height =>
    /\ \A r \in Planned :
         /\ r = 0 => plan[r].local_start = 0
         /\ r = size - 1 => plan[r].local_end = file.height
         /\ (r + 1) \in Planned => plan[r].local_end = plan[r + 1].local_start
         /\ ProcStart(0, height[r], size) = 0
         /\ ProcEnd(size - 1, height[r], size) = height[r]
         /\ \A i \in 0..(size - 2) :
              ProcEnd(i, height[r], size) = ProcStart(i + 1, height[r], size)
    /\ \A y \in 0..(file.height - 1) :
         /\ Cardinality({ r \in Planned : y \in RowsOf(r) }) <= 1
         /\ Planned = Ranks => Cardinality({ r \in Planned : y \in RowsOf(r) }) = 1

\* every rank has planned, the split is uneven and there are at least three ranks
C1_Witness ==
  /\ Planned = Ranks
  /\ size >= 3
  /\ size <= file.height
  /\ file.height % size # 0

\* the byte indices of row 0, row h-1, column 0 and column w-1
Border(w, h) ==
  { k \in 0..(ImageSize(w, h) - 1) :
      \/ (k \div Channels) \div w \in {0, h - 1}
      \/ (k \div Channels) % w \in {0, w - 1} }

SameOnBorder(buf) ==
  \A k \in Border(file.width, file.height) : buf[k] = file.data[k]

\* C2: in the distributed engine every border pixel of every rank's current
\* snapshot, of its output buffer and of the written file has its input value,
\* after any number of rounds and for any alpha, iterations and worker count.
C2_BordersKept ==
  /\ \A r \in Ranks :
       /\ curr[r] # NoBuffer => SameOnBorder(curr[r])
       /\ output[r] # NoBuffer => SameOnBorder(output[r])
  /\ written # NoBuffer => SameOnBorder(written)

\* a run of MaxIter rounds on two ranks that changed the image
C2_Witness ==
  /\ size = 2
  /\ iterations = MaxIter
  /\ written # NoBuffer
  /\ written # file.data

\* C3: the snapshot curr is the same on every rank after the broadcast (round 0)
\* and after each exchange: two ranks that have completed the same number of
\* exchanges hold identical snapshots.
C3_SnapshotsAgree ==
  \A r, s \in InEngine : iter[r] = iter[s] => curr[r] = curr[s]

\* two ranks have both completed the last exchange and the snapshot has changed
C3_Witness ==
  /\ size = 2
  /\ InEngine = Ranks
  /\ \A r \in Ranks : iter[r] = MaxIter
  /\ curr[0] # file.data

\* C4: rounds are globally ordered: a rank that has completed k exchanges (and so
\* may read the snapshot of round k) does so only after every rank has sent its
\* slice of each of those k exchanges.
C4_RoundsOrdered ==
  \A r, s \in Ranks : iter[r] <= Len(sent[s])

\* in the second round one rank waits inside the exchange for a rank still computing
C4_Witness ==
  \E r, s \in Ranks :
    /\ pc[r] = "gather"
    /\ iter[r] = 1
    /\ pc[s] = "compute"
    /\ iter[s] = 1

\* what the exchanges number n wrote: every byte of a rank's range is the byte it sent
FromExchange(buf, r, n) ==
  \A i \in Ranks :
    \A k \in 0..(plan[r].recvcounts[i] - 1) :
      buf[plan[r].displs[i] + k] = sent[i][n][k]

C6_SerialEqualsHybrid ==
  ( /\ size = 1
    /\ pc[0] = "exit" /\ ret[0] = 0
    /\ s_pc = "exit" /\ s_ret = 0 )
  => s_written = written

\* the load failed on a valid command line
LoadFails == argc = ArgCount /\ iterations > 0 /\ ~file.ok

\* C7: when rank 0 cannot load the input, the flag broadcast is the only
\* collective of the run: every rank takes part in it and in nothing else, no
\* rank reaches the width/height/image broadcasts or an all-gather, and every
\* rank that exits does so with a non-zero code after that one broadcast.
C7_LoadFailure ==
  LoadFails =>
    /\ Len(bcast) <= 1
    /\ bcast # << >> => bcast[1] = 1
    /\ \A r \in Ranks :
         /\ pc[r] \in {"main", "flag", "exit"}
         /\ ncoll[r] <= 1
         /\ sent[r] = << >>
         /\ pc[r] = "exit" => ret[r] = 1 /\ ncoll[r] = 1

\* both ranks have exited after a failed load
C7_Witness ==
  /\ LoadFails
  /\ size = 2
  /\ \A r \in Ranks : pc[r] = "exit"

\* the command line is rejected
BadArgs == argc # ArgCount \/ iterations <= 0

\* C8: with a wrong argument count or a non-positive iteration count no rank
\* performs a collective or any computation, and every rank that leaves main
\* exits with a non-zero code: no rank goes on while another has exited.
C8_ArgsRejected ==
  BadArgs =>
    /\ bcast = << >>
    /\ \A r \in Ranks :
         /\ pc[r] \in {"main", "exit"}
         /\ ncoll[r] = 0
         /\ sent[r] = << >>
         /\ curr[r] = NoBuffer /\ next[r] = NoBuffer /\ plan[r] = NoPlan
         /\ pc[r] = "exit" => ret[r] = 1

\* both ranks have exited on an iteration count of 0
C8_Witness ==
  /\ argc = ArgCount
  /\ iterations = 0
  /\ size = 2
  /\ \A r \in Ranks : pc[r] = "exit"

\* C9: a run with more workers than image rows is rejected before any
\* computation: no rank builds the recvcounts/displs table or enters the loop.
C9_OversizeRejected ==
  size > file.height /\ file.ok =>
    \A r \in Ranks :
      /\ plan[r] = NoPlan
      /\ pc[r] \notin {"loop", "compute", "gather", "write"}

\* one round applied to a whole snapshot: every interior pixel from img itself
GlobalRound(img) ==
  [k \in DOMAIN img |->
     LET c == k % Channels
         x == (k \div Channels) % file.width
         y == (k \div Channels) \div file.width
     IN  IF y \in 1..(file.height - 2) /\ x \in 1..(file.width - 2)
           THEN Stencil(img, file.width, y, x, c, alpha)
           ELSE img[k]]

RECURSIVE RoundsFrom(_, _)
RoundsFrom(img, n) == IF n = 0 THEN img ELSE GlobalRound(RoundsFrom(img, n - 1))

\* the pixels of rank r's region the OpenMP loop has already updated in this round
Updated(r) ==
  Region(plan[r].local_eff_start, plan[r].local_eff_end, width[r]) \ todo[r]

\* what next holds while the loop of a round runs: the stencil of the round-start
\* snapshot where a pixel has been updated, the snapshot's own byte elsewhere
NextFromSnapshot(r) ==
  LET done == Updated(r)
  IN  \A k \in DOMAIN next[r] :
        LET c == k % Channels
            x == (k \div Channels) % width[r]
            y == (k \div Channels) \div width[r]
        IN  next[r][k] = IF <<y, x>> \in done
                           THEN Stencil(curr[r], width[r], y, x, c, alpha)
                           ELSE curr[r][k]

\* C10: the engine's result is a function of the input, alpha and the number of
\* rounds, whatever the order of the pixel updates among threads and the order
\* in which ranks enter the exchange: a rank's first snapshot is the input; during
\* a round each updated pixel of next holds the stencil of the round-start snapshot
\* and every other cell of next is the snapshot's; each exchange a rank completes
\* replaces its snapshot by the whole-image round of that snapshot; and the output
\* is the `iterations`-fold round of the input.
C10_Deterministic ==
  /\ [](\A r \in InEngine :
          /\ iter[r] = 0 => curr[r] = file.data
          /\ pc[r] = "compute" => NextFromSnapshot(r)
          /\ pc[r] = "write" => output[r] = RoundsFrom(file.data, iterations))
  /\ [][\A r \in Ranks :
          iter'[r] = iter[r] + 1 => curr'[r] = GlobalRound(curr[r])]_vars

\* in the second round a rank has run some but not all iterations of its loop,
\* and the ones it ran changed the image
C10_Witness ==
  \E r \in Ranks :
    /\ pc[r] = "compute"
    /\ iter[r] = 1
    /\ todo[r] # {}
    /\ Updated(r) # {}
    /\ next[r] # curr[r]


\* every pixel has the same value in each channel
Uniform(buf) == \A k \in DOMAIN buf : buf[k] = buf[k % Channels]

\* C11: a uniform image is a fixed point of the engine: for any alpha, any
\* iterations >= 1 and any worker count dividing the height, every snapshot, every
\* scratch buffer and the output are identical to the input.
C11_UniformFixed ==
  (file.ok /\ Uniform(file.data) /\ file.height % size = 0) =>
    /\ \A r \in InEngine :
         /\ curr[r] = file.data
         /\ next[r] # NoBuffer => next[r] = file.data
         /\ output[r] # NoBuffer => output[r] = file.data
    /\ written # NoBuffer => written = file.data

\* two ranks have run MaxIter rounds with alpha = 1/2 on a uniform image with
\* interior rows, and rank 0 has written the output
C11_Witness ==
  /\ file.ok /\ Uniform(file.data)
  /\ size = 2 /\ file.height % size = 0 /\ file.height > 2
  /\ alpha = <<1, 2>>
  /\ iterations = MaxIter
  /\ written # NoBuffer

\* weight_sum and weighted_value of pixel (y,x), channel c of buf, times Scale
WeightSumAt(buf, w, y, x, c) ==
  LET nb == Neighbors(buf, w, y, x, c)
      ce == buf[Idx(w, y, x, c)]
  IN  Weight(nb[1] - ce) + Weight(nb[2] - ce) + Weight(nb[3] - ce) + Weight(nb[4] - ce)

WeightedValueAt(buf, w, y, x, c) ==
  LET nb == Neighbors(buf, w, y, x, c)
      ce == buf[Idx(w, y, x, c)]
  IN  Weight(nb[1] - ce) * nb[1] + Weight(nb[2] - ce) * nb[2]
        + Weight(nb[3] - ce) * nb[3] + Weight(nb[4] - ce) * nb[4]

\* edge_strength = |smooth - center| > 20, with smooth = weighted_value / weight_sum
OnEdge(buf, w, y, x, c) ==
  Abs(WeightedValueAt(buf, w, y, x, c) - buf[Idx(w, y, x, c)] * WeightSumAt(buf, w, y, x, c))
    > Threshold * WeightSumAt(buf, w, y, x, c)

\* smooth, truncated to a byte (smooth lies between the neighbour values, within 0..255)
SmoothByte(buf, w, y, x, c) ==
  WeightedValueAt(buf, w, y, x, c) \div WeightSumAt(buf, w, y, x, c)

\* C12: with alpha = 0, in every round each interior pixel/channel a rank has
\* updated keeps its round-start value when edge_strength <= 20 and holds the
\* smooth value when edge_strength > 20.
C12_AlphaZero ==
  alpha[1] = 0 =>
    \A r \in Ranks :
      pc[r] \in {"compute", "gather"} =>
        \A p \in Updated(r) :
          \A c \in 0..(Channels - 1) :
            next[r][Idx(width[r], p[1], p[2], c)] =
              IF OnEdge(curr[r], width[r], p[1], p[2], c)
                THEN SmoothByte(curr[r], width[r], p[1], p[2], c)
                ELSE curr[r][Idx(width[r], p[1], p[2], c)]

\* with alpha = 0 a rank has updated a pixel with one channel on an edge, replaced
\* by a different value, and one channel off an edge whose smooth value differs from
\* the centre
C12_Witness ==
  /\ alpha[1] = 0
  /\ \E r \in Ranks :
       /\ pc[r] = "gather"
       /\ \E p \in Updated(r) :
            /\ \E c \in 0..(Channels - 1) :
                 /\ OnEdge(curr[r], width[r], p[1], p[2], c)
                 /\ next[r][Idx(width[r], p[1], p[2], c)]
                      # curr[r][Idx(width[r], p[1], p[2], c)]
            /\ \E c \in 0..(Channels - 1) :
                 /\ ~OnEdge(curr[r], width[r], p[1], p[2], c)
                 /\ SmoothByte(curr[r], width[r], p[1], p[2], c)
                      # curr[r][Idx(width[r], p[1], p[2], c)]


\* the bytes of the snapshot that rank q's table assigns to rank i
ByteRange(q, i) ==
  plan[q].displs[i]..(plan[q].displs[i] + plan[q].recvcounts[i] - 1)

\* the image row of byte k
RowOfByte(k) == k \div (file.width * Channels)

\* C13: in every exchange the byte ranges [displs[i], displs[i] + recvcounts[i])
\* of different ranks are pairwise disjoint, each range lies in the interior rows
\* and in the effective rows of the rank it belongs to, and after an exchange
\* every byte of every range is the byte its own rank sent.
C13_DisjointSlices ==
  \A q \in Planned :
    /\ \A i, j \in Ranks : i # j => ByteRange(q, i) \cap ByteRange(q, j) = {}
    /\ \A i \in Ranks :
         \A k \in ByteRange(q, i) :
           /\ RowOfByte(k) \in 1..(file.height - 2)
           /\ i \in Planned =>
                RowOfByte(k) \in plan[i].local_eff_start..(plan[i].local_eff_end - 1)
    /\ (iter[q] >= 1 /\ pc[q] \in {"loop", "compute"}) => FromExchange(curr[q], q, iter[q])

\* two ranks with non-empty slices have completed an exchange that changed the snapshot
C13_Witness ==
  /\ size = 2
  /\ Planned = Ranks
  /\ \A i \in Ranks : plan[0].recvcounts[i] > 0
  /\ \A q \in Ranks : iter[q] >= 1
  /\ curr[1] # file.data


\* every MPI process and every thread of its team keeps being scheduled: a step
\* that stays possible is eventually taken
FairSpec == Spec /\ WF_vars(Next)

\* valid arguments, a successful load and no more workers than rows
SuccessPath == argc = ArgCount /\ iterations > 0 /\ file.ok /\ size <= file.height

\* the flag, width, height and image broadcasts, then one all-gather per round
CollectiveCount == 4 + iterations

\* C14: on the success path every worker issues the same sequence of collectives
\* (the four broadcasts, then exactly `iterations` all-gathers), no worker is
\* aborted or left waiting in a collective, and under fair scheduling every
\* worker eventually terminates with exit code 0.
C14_AllTerminate ==
  /\ [](SuccessPath =>
          \A r \in Ranks :
            /\ pc[r] # "abort"
            /\ ncoll[r] <= CollectiveCount
            /\ Len(sent[r]) <= iterations
            /\ pc[r] = "exit" => ncoll[r] = CollectiveCount /\ Len(sent[r]) = iterations)
  /\ SuccessPath ~>
       (\A r \in Ranks : pc[r] = "exit" /\ ret[r] = 0 /\ ncoll[r] = CollectiveCount)


\* the byte indices one stencil application at (y,x) reads and writes:
\* idx, idx - width*3, idx + width*3, idx - 3, idx + 3 for each channel
StencilIndices(w, y, x) ==
  UNION { { Idx(w, y, x, c), Idx(w, y - 1, x, c), Idx(w, y + 1, x, c),
            Idx(w, y, x - 1, c), Idx(w, y, x + 1, c) } : c \in 0..(Channels - 1) }

\* C15: every stencil application of any worker in any round is at coordinates
\* 1 <= y <= height-2, 1 <= x <= width-2, so its four neighbour reads and its
\* write address bytes inside [0, width*height*3).
C15_StencilInBounds ==
  \A r \in Ranks :
    \A p \in todo[r] :
      /\ 1 <= p[1] /\ p[1] <= height[r] - 2
      /\ 1 <= p[2] /\ p[2] <= width[r] - 2
      /\ StencilIndices(width[r], p[1], p[2]) \subseteq 0..(ImageSize(width[r], height[r]) - 1)
      /\ StencilIndices(width[r], p[1], p[2]) \subseteq DOMAIN curr[r]
      /\ StencilIndices(width[r], p[1], p[2]) \subseteq DOMAIN next[r]

\* the last rank of two is about to apply the stencil on the last interior row
C15_Witness ==
  /\ size = 2
  /\ pc[1] = "compute"
  /\ iter[1] >= 1
  /\ \E p \in todo[1] : p[1] = height[1] - 2


\* C16: the exchange table agrees with each worker's own view: on any worker the
\* entry of rank r is displs[r] = eff_start_r * width * 3 and
\* recvcounts[r] = (eff_end_r - eff_start_r) * width * 3, the send offset
\* (local_eff_start * width * 3) and send count (local_count) of rank r itself.
C16_TableMatchesSender ==
  \A q \in Planned :
    \A r \in Planned :
      /\ plan[q].displs[r] = plan[r].local_eff_start * file.width * Channels
      /\ plan[q].recvcounts[r] =
           (plan[r].local_eff_end - plan[r].local_eff_start) * file.width * Channels
      /\ plan[q].recvcounts[r] = plan[r].local_count
      /\ plan[q].displs = plan[r].displs
      /\ plan[q].recvcounts = plan[r].recvcounts

\* three or more ranks with an uneven split have all built their tables
C16_Witness ==
  /\ size >= 3
  /\ Planned = Ranks
  /\ Extra(file.height, size) > 0
  /\ size <= file.height
  /\ \E r \in Ranks : plan[r].local_count # plan[0].local_count


\* the bytes at which rank r's scratch buffer differs from its round-start snapshot
Changed(r) == { k \in DOMAIN next[r] : next[r][k] # curr[r][k] }

\* C17: during and at the end of a round's local update, next differs from the
\* round-start snapshot curr only at pixels with y in the worker's effective
\* region [eff_start, eff_end) and x in [1, width-2]; every other byte of next
\* equals the byte of curr.
C17_ScratchFrame ==
  \A r \in Ranks :
    pc[r] \in {"compute", "gather"} =>
      /\ DOMAIN next[r] = DOMAIN curr[r]
      /\ \A k \in Changed(r) :
           /\ RowOfByte(k) \in plan[r].local_eff_start..(plan[r].local_eff_end - 1)
           /\ (k \div Channels) % width[r] \in 1..(width[r] - 2)

\* the second of two ranks has finished a local update that changed its rows
C17_Witness ==
  /\ size = 2
  /\ pc[1] = "gather"
  /\ Changed(1) # {}
  /\ plan[1].local_eff_start > 1


\* the number of rows of rank r: local_end - local_start
RowCount(r) == plan[r].local_end - plan[r].local_start

\* C18: the partition is balanced: for worker_count <= height exactly the ranks
\* r < height mod worker_count receive floor(height / worker_count) + 1 rows,
\* all other ranks receive floor(height / worker_count) rows, and any two ranks'
\* row counts differ by at most one.
C18_Balanced ==
  size <= file.height =>
    /\ \A r \in Planned :
         RowCount(r) = (file.height \div size)
                         + (IF r < file.height % size THEN 1 ELSE 0)
    /\ \A q, r \in Planned : Abs(RowCount(q) - RowCount(r)) <= 1
    /\ \A q, r \in Planned : q < r => RowCount(q) >= RowCount(r)

\* every rank of an uneven split has planned: some ranks hold one row more
C18_Witness ==
  /\ size >= 3
  /\ size <= file.height
  /\ Planned = Ranks
  /\ file.height % size >= 2
  /\ RowCount(0) = RowCount(size - 1) + 1


\* the ranks whose effective region [local_eff_start, local_eff_end) holds row y
OwnersOf(y) ==
  { r \in Planned : y \in plan[r].local_eff_start..(plan[r].local_eff_end - 1) }

\* C19: the distributed result does not depend on the number of workers: with
\* any worker_count in 1..height every interior row is in the effective region
\* of exactly one worker, and the final snapshot is `iterations` rounds of the
\* whole-image update of the input, which is what a single worker computes.
C19_WorkerCountFree ==
  size <= file.height =>
    /\ \A y \in 1..(file.height - 2) :
         /\ Cardinality(OwnersOf(y)) <= 1
         /\ Planned = Ranks => Cardinality(OwnersOf(y)) = 1
    /\ \A r \in Ranks :
         pc[r] = "write" => output[r] = RoundsFrom(file.data, iterations)

\* two workers have produced a final snapshot of MaxIter rounds that differs from the input
C19_Witness ==
  /\ size = 2
  /\ size <= file.height
  /\ iterations = MaxIter
  /\ \A r \in Ranks : pc[r] = "write" /\ output[r] # file.data


\* C20: for every height >= 1 and every worker_count in 1..height each rank's
\* recvcounts entries and its own local_count are non-negative and
\* displs[i] + recvcounts[i] <= width*height*3: no effective region has
\* eff_end < eff_start and no slice extends past the image buffer.
C20_CountsInRange ==
  (file.height >= 1 /\ size <= file.height) =>
    \A r \in Planned :
      /\ plan[r].local_count >= 0
      /\ plan[r].local_eff_end >= plan[r].local_eff_start
      /\ \A i \in Ranks :
           /\ plan[r].recvcounts[i] >= 0
           /\ plan[r].displs[i] + plan[r].recvcounts[i]
                <= ImageSize(file.width, file.height)


\* the byte indices of the pixels the serial loops write: 1 <= y <= h-2, 1 <= x <= w-2
Interior(w, h) == (0..(ImageSize(w, h) - 1)) \ Border(w, h)

\* graph_diffusion_rgb has returned and main has reached return 0
SerialDone == s_pc = "exit" /\ s_ret = 0

\* C21: in the single-process program, when graph_diffusion_rgb returns,
\* output->data holds the result of the last of the `iterations` rounds, for even
\* as well as odd iteration counts: on every pixel a round writes, the output
\* equals the buffer the last sweep wrote (temp after the last swap).
C21_SerialLastRound ==
  (SerialDone /\ s_iter = iterations) =>
    \A k \in Interior(file.width, file.height) : s_out[k] = s_temp[k]

\* C22: in the single-process program the border pixels of the image left in
\* output->data equal the input's border pixels, and no round reads a border
\* value that differs from the input's (temp, the buffer a round reads, carries
\* the input's border), whatever the output buffer's initial contents.
C22_SerialBorders ==
  /\ SerialDone => SameOnBorder(s_out)
  /\ (s_pc = "loop" /\ s_iter < iterations) => SameOnBorder(s_temp)


\* the ranks that have computed their row range in median_filter_rgb_parallel
MedPlanned == { r \in Ranks : m_plan[r] # NoRows }

\* the rows the root's receive slot of rank s holds: rows_per_process rows from s * rows_per_process
SlotRows(r, s) ==
  (s * m_plan[r].rows_per_process)..((s + 1) * m_plan[r].rows_per_process - 1)

\* C23: in the MPI median filter, for every height and worker count, the number
\* of bytes each rank sends to MPI_Gather (width * (end_row - start_row) * 3)
\* equals the per-rank receive count of the root (width * rows_per_process * 3),
\* and the gathered slices together cover all rows [0, height) of the output.
C23_GatherCountsMatch ==
  \A r \in MedPlanned :
    /\ SendCount(m_plan[r], m_width[r]) = GatherRecvCount(m_plan[r], m_width[r])
    /\ Len(m_sent[r]) = 1 => SentCount(r) = GatherRecvCount(m_plan[r], m_width[r])
    /\ UNION { SlotRows(r, s) : s \in Ranks } = 0..(m_height[r] - 1)

\* the byte indices the window loops read on row `row`
WindowIndices(row, w) ==
  { (row * w + x) * Channels + c : x \in 0..(w - 1), c \in 0..(Channels - 1) }

\* C24: in the MPI median filter every read of input->data while collecting a
\* 3x3 window, on every rank and for every row y in [start_row, end_row), uses a
\* row index y+dy within [0, height-1], a byte index inside [0, width*height*3).
C24_WindowInBounds ==
  \A r \in Ranks :
    \A row \in m_reads[r] :
      /\ row \in 0..(m_height[r] - 1)
      /\ WindowIndices(row, m_width[r]) \subseteq 0..(ImageSize(m_width[r], m_height[r]) - 1)


\* weight_sum and weighted_value of the stand-alone application, times Scale
KernelWeightSum ==
  Weight(k_nb[1] - k_center) + Weight(k_nb[2] - k_center)
    + Weight(k_nb[3] - k_center) + Weight(k_nb[4] - k_center)

KernelWeightedValue ==
  Weight(k_nb[1] - k_center) * k_nb[1] + Weight(k_nb[2] - k_center) * k_nb[2]
    + Weight(k_nb[3] - k_center) * k_nb[3] + Weight(k_nb[4] - k_center) * k_nb[4]

\* |s - c| > 20 for s = weighted_value / weight_sum
KernelOnEdge ==
  Abs(KernelWeightedValue - k_center * KernelWeightSum) > Threshold * KernelWeightSum

\* c + alpha * (s - c), rounded down to an integer
KernelBlend ==
  k_center + ((alpha[1] * (KernelWeightedValue - k_center * KernelWeightSum))
                \div (alpha[2] * KernelWeightSum))

\* C25: for centre c and weighted neighbour average s the value written is s when
\* |s - c| > 20 and c + alpha * (s - c) otherwise, clamped to [0, 255] and
\* truncated to an 8-bit integer; the written value is in 0..255 for any alpha.
C25_DecisionRule ==
  k_out # -1 =>
    /\ k_out \in 0..MaxByte
    /\ KernelOnEdge => k_out = KernelWeightedValue \div KernelWeightSum
    /\ ~KernelOnEdge =>
         k_out = (IF KernelBlend < 0 THEN 0
                  ELSE IF KernelBlend > MaxByte THEN MaxByte ELSE KernelBlend)

\* the rule has been applied off an edge with an alpha below 0 whose blend is
\* negative and is clamped to 0
C25_Witness ==
  /\ k_out = 0
  /\ alpha[1] < 0
  /\ ~KernelOnEdge
  /\ KernelBlend < 0
  /\ k_center > 0

=============================================================================
